---- MODULE Spec2Model ----
(***************************************************************************)
(* A model of the todo/category backend (server/internal): the service     *)
(* layer (validation, normalisation), the repositories (the statements     *)
(* each method sends to the store and their soft-delete scoping) and the   *)
(* query composition of the list endpoints (filters, sort resolution,      *)
(* pagination arithmetic).                                                 *)
(*                                                                         *)
(* Representation                                                          *)
(*   - a table is a sequence of rows; a row's id is its position (SERIAL). *)
(*   - a nullable Go pointer (to uint, bool, time.Time) is <<>> for nil   *)
(*     and <<v>> for a value.                                              *)
(*   - text whose characters matter (title, search, name, color) is a      *)
(*     sequence of one-character strings; enumerations and error messages  *)
(*     are plain strings.                                                  *)
(*   - time is counted in hours.                                           *)
(*   - gorm.DeletedAt is the row's `deleted` flag; every gorm query on a   *)
(*     model with that field carries "deleted_at IS NULL".                 *)
(***************************************************************************)
EXTENDS Integers, Sequences, FiniteSets, TLC

VARIABLES
    todos,       \* table todos
    categories,  \* table categories
    now,         \* time.Now(), in hours
    resp,        \* the call that completed last: its operation, input and outcome
    reqs         \* requests in flight, statement by statement (concurrent runs)

vars == <<todos, categories, now, resp, reqs>>

----------------------------------------------------------------------------
(* Bounds of the model.                                                    *)

MaxTodos == 2
MaxCategories == 1
MaxListRows == 2
MaxPage == 3
MaxTotal == 25
MaxRequests == 2
MaxTicks == 2
MaxCategoryRows == 2

----------------------------------------------------------------------------
(* Values.                                                                 *)

None == <<>>
Some(v) == <<v>>
IsSome(p) == Len(p) = 1
Val(p) == p[1]

NoErr == ""

\* a nil *models.Todo or *models.Category, and what reading a field through
\* it does: the goroutine panics, the call returns nothing
Nil == [nil |-> TRUE]
IsNil(p) == "nil" \in DOMAIN p
NilPointerDereference ==
    "panic: runtime error: invalid memory address or nil pointer dereference"

PriorityLow == "low"
PriorityMedium == "medium"
PriorityHigh == "high"

\* time.Time{}: the zero time a struct field has when the request does not set it
ZeroTime == 0
\* the instant the modelled runs start at
StartTime == 100

----------------------------------------------------------------------------
(* Text.                                                                   *)

IsSpace(c) == c \in {" ", "\t", "\n"}

RECURSIVE TrimLeft(_)
TrimLeft(s) ==
    IF s # <<>> /\ IsSpace(Head(s)) THEN TrimLeft(Tail(s)) ELSE s

RECURSIVE TrimRight(_)
TrimRight(s) ==
    IF s # <<>> /\ IsSpace(s[Len(s)]) THEN TrimRight(SubSeq(s, 1, Len(s) - 1)) ELSE s

\* strings.TrimSpace
TrimSpace(s) == TrimRight(TrimLeft(s))

\* strings.ToLower / SQL LOWER on one character
LowerChar(c) ==
    CASE c = "A" -> "a"
      [] c = "B" -> "b"
      [] c = "F" -> "f"
      [] c = "W" -> "w"
      [] OTHER -> c

ToLower(s) == [i \in 1..Len(s) |-> LowerChar(s[i])]

\* strings.HasPrefix(s, "#")
HasHashPrefix(s) == s # <<>> /\ s[1] = "#"

IsHexDigit(c) ==
    c \in {"0", "1", "2", "3", "4", "5", "6", "7", "8", "9",
           "A", "B", "C", "D", "E", "F", "a", "b", "c", "d", "e", "f"}

----------------------------------------------------------------------------
(* models/todo.go, models/category.go                                      *)

\* Priority.IsValid
IsValid(p) == p \in {PriorityLow, PriorityMedium, PriorityHigh}

\* Category.BeforeCreate: the default color "#3B82F6"
DefaultColor == <<"#", "3", "B", "8", "2", "F", "6">>

CategoryBeforeCreate(c) ==
    IF c.color = <<>> THEN [c EXCEPT !.color = DefaultColor] ELSE c

\* Todo.BeforeCreate
TodoBeforeCreate(t) ==
    IF t.priority = "" THEN [t EXCEPT !.priority = PriorityMedium] ELSE t

\* Todo.BeforeUpdate: gorm.ErrInvalidValue for a priority outside the set
TodoBeforeUpdate(t) ==
    IF t.priority # "" /\ ~IsValid(t.priority) THEN "invalid value" ELSE NoErr

\* a toggle that only ever marks the todo complete
ToggleCompleteSetsTrue(t) == [t EXCEPT !.completed = TRUE]

\* Todo.ToggleComplete
ToggleComplete(t) == [t EXCEPT !.completed = ~t.completed]

----------------------------------------------------------------------------
(* The store: what one gorm statement does to a table.                     *)

\* First without the soft-delete scope (db.Unscoped())
FirstUnscoped(table, id) ==
    IF id \in 1..Len(table) THEN Some(table[id]) ELSE None

\* db.First(&row, id) on a model with gorm.DeletedAt:
\* SELECT ... WHERE id = ? AND deleted_at IS NULL
First(table, id) ==
    IF id \in 1..Len(table) /\ ~table[id].deleted THEN Some(table[id]) ELSE None

\* the foreign key todos.category_id REFERENCES categories(id): the referenced
\* row must be in the table; a soft-deleted row still is
ForeignKeyHolds(cats, category_id) ==
    IsSome(category_id) => Val(category_id) \in 1..Len(cats)

\* the count without the soft-delete scope
CountTodosUnscoped(tds, id) ==
    Cardinality({i \in 1..Len(tds) : tds[i].category_id = Some(id)})

\* db.Model(&models.Todo{}).Where("category_id = ?", id).Count(&n): the rows the
\* soft-delete scope leaves
CountTodosOfCategory(tds, id) ==
    Cardinality({i \in 1..Len(tds) : ~tds[i].deleted /\ tds[i].category_id = Some(id)})

\* db.Delete(&row): UPDATE ... SET deleted_at = now WHERE id = ? AND deleted_at IS NULL
SoftDelete(table, id) ==
    IF id \in 1..Len(table) THEN [table EXCEPT ![id].deleted = TRUE] ELSE table

\* a unique index on categories.name restricted to deleted_at IS NULL
NameTakenAmongLive(cats, name, self) ==
    \E i \in 1..Len(cats) : i # self /\ ~cats[i].deleted /\ cats[i].name = name

\* the unique index on categories.name: it spans every row of the table
NameTaken(cats, name, self) ==
    \E i \in 1..Len(cats) : i # self /\ cats[i].name = name

\* the row db.Create(todo) inserts for a request struct
TodoRow(t, at) ==
    [priority |-> t.priority, completed |-> t.completed, deleted |-> FALSE,
     category_id |-> t.category_id, title |-> t.title, description |-> t.description,
     due_date |-> t.due_date, created_at |-> at, updated_at |-> at]

\* db.Create(todo): the BeforeCreate hook, then the INSERT
InsertTodo(tds, cats, t, at) ==
    IF ~ForeignKeyHolds(cats, t.category_id)
    THEN [todos |-> tds, err |-> "violates foreign key constraint"]
    ELSE [todos |-> Append(tds, TodoRow(TodoBeforeCreate(t), at)), err |-> NoErr]

\* db.Updates(todo) in place of db.Save(todo): an UPDATE that leaves out the
\* fields holding their zero value, so completed = false is not written
SaveTodoNonZeroFields(tds, cats, id, t, at) ==
    LET row == [TodoRow(t, at) EXCEPT !.created_at = t.created_at] IN
    IF TodoBeforeUpdate(t) # NoErr
    THEN [todos |-> tds, err |-> TodoBeforeUpdate(t)]
    ELSE IF ~ForeignKeyHolds(cats, t.category_id)
    THEN [todos |-> tds, err |-> "violates foreign key constraint"]
    ELSE IF id \in 1..Len(tds)
    THEN [todos |-> [tds EXCEPT ![id] =
                        [row EXCEPT !.completed = t.completed \/ tds[id].completed]],
          err |-> NoErr]
    ELSE [todos |-> Append(tds, row), err |-> NoErr]

\* db.Save(todo) for a struct with a primary key: the BeforeUpdate hook, then an
\* UPDATE of every column (a zero CreatedAt and a null DeletedAt included) scoped
\* to deleted_at IS NULL; when that matches no row, gorm falls back to
\* INSERT ... ON CONFLICT (id) DO UPDATE
SaveTodo(tds, cats, id, t, at) ==
    LET row == [TodoRow(t, at) EXCEPT !.created_at = t.created_at] IN
    IF TodoBeforeUpdate(t) # NoErr
    THEN [todos |-> tds, err |-> TodoBeforeUpdate(t)]
    ELSE IF ~ForeignKeyHolds(cats, t.category_id)
    THEN [todos |-> tds, err |-> "violates foreign key constraint"]
    ELSE IF id \in 1..Len(tds)
    THEN [todos |-> [tds EXCEPT ![id] = row], err |-> NoErr]
    ELSE [todos |-> Append(tds, row), err |-> NoErr]

\* the struct db.First loads from a row
TodoStruct(id, row) ==
    [priority |-> row.priority, completed |-> row.completed, id |-> id,
     category_id |-> row.category_id, title |-> row.title, description |-> row.description,
     due_date |-> row.due_date, created_at |-> row.created_at]

CategoryRow(c, at) ==
    [color |-> c.color, deleted |-> FALSE, name |-> c.name, created_at |-> at,
     updated_at |-> at]

\* db.Create(category)
InsertCategory(cats, c, at) ==
    IF NameTaken(cats, c.name, 0)
    THEN [categories |-> cats, err |-> "duplicate key"]
    ELSE [categories |-> Append(cats, CategoryRow(CategoryBeforeCreate(c), at)),
          err |-> NoErr]

\* db.Save(category)
SaveCategory(cats, id, c, at) ==
    LET row == [CategoryRow(c, at) EXCEPT !.created_at = c.created_at] IN
    IF NameTaken(cats, c.name, id)
    THEN [categories |-> cats, err |-> "duplicate key"]
    ELSE IF id \in 1..Len(cats)
    THEN [categories |-> [cats EXCEPT ![id] = row], err |-> NoErr]
    ELSE [categories |-> Append(cats, row), err |-> NoErr]

----------------------------------------------------------------------------
(* repository/todo_repository.go                                           *)

\* todoRepository.Create
TodoRepositoryCreate(tds, cats, t, at) ==
    IF IsSome(t.category_id) /\ First(cats, Val(t.category_id)) = None
    THEN [todos |-> tds, err |-> "category not found"]
    ELSE InsertTodo(tds, cats, t, at)

\* todoRepository.GetByID
TodoRepositoryGetByID(tds, id) ==
    IF First(tds, id) = None
    THEN [err |-> "todo not found", todo |-> None]
    ELSE [err |-> NoErr, todo |-> First(tds, id)]

\* todoRepository.Update
TodoRepositoryUpdate(tds, cats, t, at) ==
    IF First(tds, t.id) = None
    THEN [todos |-> tds, err |-> "todo not found"]
    ELSE IF IsSome(t.category_id) /\ First(cats, Val(t.category_id)) = None
    THEN [todos |-> tds, err |-> "category not found"]
    ELSE SaveTodo(tds, cats, t.id, t, at)

\* todoRepository.Delete
TodoRepositoryDelete(tds, id) ==
    IF First(tds, id) = None
    THEN [todos |-> tds, err |-> "todo not found"]
    ELSE [todos |-> SoftDelete(tds, id), err |-> NoErr]

\* todoRepository.ToggleComplete
TodoRepositoryToggleComplete(tds, cats, id, at) ==
    IF First(tds, id) = None
    THEN [todos |-> tds, err |-> "todo not found"]
    ELSE SaveTodo(tds, cats, id, ToggleComplete(TodoStruct(id, Val(First(tds, id)))), at)

----------------------------------------------------------------------------
(* repository: categoryRepository                                          *)

\* the driver's text passed on as it is
UniqueViolationUnmapped(err) == err

\* the driver's unique-violation text mapped to the repository's error
UniqueViolation(err) ==
    IF err = "duplicate key" THEN "category name already exists" ELSE err

\* categoryRepository.Create
CategoryRepositoryCreate(cats, c, at) ==
    LET r == InsertCategory(cats, c, at) IN
    [categories |-> r.categories, err |-> UniqueViolation(r.err)]

\* GetByID reading through db.Unscoped()
CategoryRepositoryGetByIDUnscoped(cats, id) ==
    IF FirstUnscoped(cats, id) = None
    THEN [err |-> "category not found", category |-> None]
    ELSE [err |-> NoErr, category |-> FirstUnscoped(cats, id)]

\* categoryRepository.GetByID
CategoryRepositoryGetByID(cats, id) ==
    IF First(cats, id) = None
    THEN [err |-> "category not found", category |-> None]
    ELSE [err |-> NoErr, category |-> First(cats, id)]

\* categoryRepository.Update
CategoryRepositoryUpdate(cats, c, at) ==
    IF First(cats, c.id) = None
    THEN [categories |-> cats, err |-> "category not found"]
    ELSE LET r == SaveCategory(cats, c.id, c, at) IN
         [categories |-> r.categories, err |-> UniqueViolation(r.err)]

\* Delete that soft-deletes the row before it counts the associated todos
CategoryRepositoryDeleteBeforeCount(cats, tds, id) ==
    IF First(cats, id) = None
    THEN [categories |-> cats, err |-> "category not found"]
    ELSE IF CountTodosOfCategory(tds, id) > 0
    THEN [categories |-> SoftDelete(cats, id),
          err |-> "cannot delete category with associated todos"]
    ELSE [categories |-> SoftDelete(cats, id), err |-> NoErr]

\* Delete without the check for associated todos
CategoryRepositoryDeleteUnguarded(cats, tds, id) ==
    IF First(cats, id) = None
    THEN [categories |-> cats, err |-> "category not found"]
    ELSE [categories |-> SoftDelete(cats, id), err |-> NoErr]

\* categoryRepository.Delete
CategoryRepositoryDelete(cats, tds, id) ==
    IF First(cats, id) = None
    THEN [categories |-> cats, err |-> "category not found"]
    ELSE IF CountTodosOfCategory(tds, id) > 0
    THEN [categories |-> cats, err |-> "cannot delete category with associated todos"]
    ELSE [categories |-> SoftDelete(cats, id), err |-> NoErr]

\* categoryRepository.Delete when the Count statement fails: its Error is not
\* read, todoCount keeps its zero value and the method goes on to db.Delete
CategoryRepositoryDeleteCountFailed(cats, tds, id) ==
    LET todoCount == 0 IN
    IF First(cats, id) = None
    THEN [categories |-> cats, err |-> "category not found"]
    ELSE IF todoCount > 0
    THEN [categories |-> cats, err |-> "cannot delete category with associated todos"]
    ELSE [categories |-> SoftDelete(cats, id), err |-> NoErr]

----------------------------------------------------------------------------
(* repository: PaginationParams, PaginationResult                          *)
(* Go's int is 64 bits wide; the pages and limits drawn below keep every   *)
(* product far inside that range, so the arithmetic is the integers'.      *)

DefaultLimit == 10
MaxLimit == 100

\* GetLimit without the upper clamp
GetLimitUnclamped(p) ==
    IF p.limit <= 0 THEN DefaultLimit ELSE p.limit

\* PaginationParams.GetLimit
GetLimit(p) ==
    IF p.limit <= 0 THEN DefaultLimit
    ELSE IF p.limit > MaxLimit THEN MaxLimit
    ELSE p.limit

\* PaginationParams.GetOffset writes the defaulted page back through its
\* pointer receiver: the params after the call
AfterGetOffset(p) ==
    IF p.page <= 0 THEN [p EXCEPT !.page = 1] ELSE p

\* PaginationParams.GetOffset
GetOffset(p) == (AfterGetOffset(p).page - 1) * GetLimit(AfterGetOffset(p))

\* PaginationParams.GetSortOrder
GetSortOrder(p) ==
    IF p.sort_order = "" THEN "desc" ELSE p.sort_order

\* the PaginationResult literal of List: TotalPages is left at its zero value
PaginationResult(page, perPage, total) ==
    [total |-> total, current_page |-> page, per_page |-> perPage, total_pages |-> 0]

\* CalculateTotalPages rounding down
CalculateTotalPagesFloor(r) ==
    IF r.per_page > 0
    THEN [r EXCEPT !.total_pages = r.total \div r.per_page]
    ELSE r

\* PaginationResult.CalculateTotalPages
CalculateTotalPages(r) ==
    IF r.per_page > 0
    THEN [r EXCEPT !.total_pages = (r.total + r.per_page - 1) \div r.per_page]
    ELSE r

----------------------------------------------------------------------------
(* repository: the ORDER BY clause of List                                 *)

TodoSortFields == {"title", "completed", "priority", "due_date", "created_at", "updated_at"}
CategorySortFields == {"name", "created_at", "updated_at"}

\* the allow-list check dropped
SortFieldUnchecked(valid, sortBy) ==
    IF sortBy # "" THEN sortBy ELSE "created_at"

\* List: sortBy := "created_at", replaced by pagination.SortBy when
\* validSortFields has it
SortField(valid, sortBy) ==
    IF sortBy # "" /\ sortBy \in valid THEN sortBy ELSE "created_at"

\* the argument of query.Order: the expression sorted on and the text that
\* follows it ("" when nothing is appended)
TodoOrderClause(p) ==
    LET sortBy == SortField(TodoSortFields, p.sort_by) IN
    IF sortBy = "priority"
    THEN [field |-> "priority",
          suffix |-> IF GetSortOrder(p) = "desc" THEN "DESC" ELSE ""]
    ELSE [field |-> sortBy, suffix |-> GetSortOrder(p)]

CategoryOrderClause(p) ==
    [field |-> SortField(CategorySortFields, p.sort_by), suffix |-> GetSortOrder(p)]

\* how the database reads the text after the sort expression: keywords are
\* case-insensitive, nothing means ascending, other text is a syntax error
SqlDirection(suffix) ==
    IF suffix \in {"", "asc", "ASC", "Asc"} THEN "asc"
    ELSE IF suffix \in {"desc", "DESC", "Desc"} THEN "desc"
    ELSE "syntax error"

----------------------------------------------------------------------------
(* repository: List                                                        *)

\* text LIKE pattern: % stands for any run of characters, _ for any one
\* character, every other character for itself
RECURSIVE Like(_, _)
Like(text, pattern) ==
    IF pattern = <<>> THEN text = <<>>
    ELSE IF Head(pattern) = "%"
    THEN Like(text, Tail(pattern)) \/ (text # <<>> /\ Like(Tail(text), pattern))
    ELSE IF text = <<>> THEN FALSE
    ELSE IF Head(pattern) = "_" THEN Like(Tail(text), Tail(pattern))
    ELSE Head(pattern) = Head(text) /\ Like(Tail(text), Tail(pattern))

\* "%" + strings.ToLower(filters.Search) + "%"
SearchTerm(search) == <<"%">> \o ToLower(search) \o <<"%">>

\* the Where clause without the soft-delete scope
TodoWhereUnscoped(row, f) ==
    /\ f.search # <<>> => Like(ToLower(row.title), SearchTerm(f.search))
    /\ IsSome(f.completed) => row.completed = Val(f.completed)
    /\ IsSome(f.category_id) =>
           (IsSome(row.category_id) /\ Val(row.category_id) = Val(f.category_id))
    /\ f.priority # "" => row.priority = f.priority

\* the Where clauses of todoRepository.List as a predicate on one row
TodoWhere(row, f) ==
    /\ ~row.deleted
    /\ f.search # <<>> => Like(ToLower(row.title), SearchTerm(f.search))
    /\ IsSome(f.completed) => row.completed = Val(f.completed)
    /\ IsSome(f.category_id) =>
           (IsSome(row.category_id) /\ Val(row.category_id) = Val(f.category_id))
    /\ f.priority # "" => row.priority = f.priority

\* the Where clause of categoryRepository.List
CategoryWhere(row, f) ==
    /\ ~row.deleted
    /\ f.search # <<>> => Like(ToLower(row.name), SearchTerm(f.search))

\* the order of the characters used here under the database's collation
CharRank(c) ==
    CASE c = " " -> 0
      [] c = "%" -> 1
      [] c = "_" -> 2
      [] c = "A" -> 3
      [] c = "B" -> 4
      [] c = "a" -> 5
      [] c = "b" -> 6
      [] OTHER -> 7

RECURSIVE TextLess(_, _)
TextLess(s, t) ==
    IF t = <<>> THEN FALSE
    ELSE IF s = <<>> THEN TRUE
    ELSE IF CharRank(Head(s)) # CharRank(Head(t))
    THEN CharRank(Head(s)) < CharRank(Head(t))
    ELSE TextLess(Tail(s), Tail(t))

\* ORDER BY priority: the text column in alphabetical order
PriorityRankLexical(p) ==
    CASE p = PriorityHigh -> 1
      [] p = PriorityLow -> 2
      [] p = PriorityMedium -> 3

\* CASE priority WHEN 'high' THEN 1 WHEN 'medium' THEN 2 WHEN 'low' THEN 3 END
PriorityRank(p) ==
    CASE p = PriorityHigh -> 1
      [] p = PriorityMedium -> 2
      [] p = PriorityLow -> 3

\* a sorts strictly before b in ascending order of the field; a NULL sorts
\* after every value
Less(field, a, b) ==
    CASE field \in {"title", "name"} -> TextLess(a[field], b[field])
      [] field = "completed" -> ~a.completed /\ b.completed
      [] field = "priority" -> PriorityRank(a.priority) < PriorityRank(b.priority)
      [] field = "due_date" ->
             IsSome(a.due_date) /\ (IsSome(b.due_date) => Val(a.due_date) < Val(b.due_date))
      [] OTHER -> a[field] < b[field]

\* every order the database may return the selected rows in: sorted on the
\* field in the direction, rows that tie in any order
Orderings(table, ids, field, direction) ==
    LET n == Cardinality(ids) IN
    {s \in [1..n -> ids] :
        /\ \A i, j \in 1..n : i # j => s[i] # s[j]
        /\ \A i, j \in 1..n : i < j =>
               IF direction = "asc"
               THEN ~Less(field, table[s[j]], table[s[i]])
               ELSE ~Less(field, table[s[i]], table[s[j]])}

\* Offset(offset).Limit(limit)
Page(s, offset, limit) ==
    LET last == IF offset + limit < Len(s) THEN offset + limit ELSE Len(s) IN
    IF offset >= Len(s) THEN <<>> ELSE SubSeq(s, offset + 1, last)

ListResult(err, rows, pagination, clause) ==
    [err |-> err, rows |-> rows, pagination |-> pagination, order |-> clause]

\* the results a List may return for one order clause over the selected ids
ListResults(table, ids, clause, p) ==
    IF SqlDirection(clause.suffix) = "syntax error"
    THEN {ListResult("syntax error", <<>>, PaginationResult(0, 0, 0), clause)}
    ELSE {ListResult(NoErr, Page(s, GetOffset(p), GetLimit(p)),
                     CalculateTotalPages(PaginationResult(AfterGetOffset(p).page,
                                                          GetLimit(p),
                                                          Cardinality(ids))),
                     clause) :
              s \in Orderings(table, ids, clause.field, SqlDirection(clause.suffix))}

\* todoRepository.List
TodoRepositoryList(tds, f, p) ==
    ListResults(tds, {i \in 1..Len(tds) : TodoWhere(tds[i], f)}, TodoOrderClause(p), p)

\* categoryRepository.List
CategoryRepositoryList(cats, f, p) ==
    ListResults(cats, {i \in 1..Len(cats) : CategoryWhere(cats[i], f)},
                CategoryOrderClause(p), p)

\* categoryRepository.GetAll: Order("name ASC").Find
CategoryRepositoryGetAll(cats) ==
    Orderings(cats, {i \in 1..Len(cats) : ~cats[i].deleted}, "name", "asc")

----------------------------------------------------------------------------
(* services/todo_service.go                                                *)

MaxTitleLen == 255
MaxDescriptionLen == 5000
\* tolerance := 24 * time.Hour
DueDateTolerance == 24

\* todoService.validateTodo
validateTodo(t) ==
    IF IsNil(t) THEN "todo cannot be nil"
    ELSE IF TrimSpace(t.title) = <<>> THEN "todo title is required"
    ELSE IF Len(t.title) > MaxTitleLen THEN "todo title cannot exceed 255 characters"
    ELSE IF Len(t.description) > MaxDescriptionLen
    THEN "todo description cannot exceed 5000 characters"
    ELSE IF t.priority # "" /\ ~IsValid(t.priority) THEN "invalid priority value"
    ELSE NoErr

\* cleanTodoData that leaves the title and the description as they came
cleanTodoDataUntrimmed(t) ==
    [t EXCEPT !.priority = IF t.priority = "" THEN PriorityMedium ELSE t.priority]

\* todoService.cleanTodoData (DueDate.UTC() keeps the instant)
cleanTodoData(t) ==
    [t EXCEPT !.title = TrimSpace(t.title),
              !.description = TrimSpace(t.description),
              !.priority = IF t.priority = "" THEN PriorityMedium ELSE t.priority]

\* the due-date check without the day of tolerance
validateTodoBusinessRulesNoTolerance(t, cats, at) ==
    IF IsSome(t.due_date) /\ Val(t.due_date) < at
    THEN "due date cannot be in the past"
    ELSE IF IsSome(t.category_id)
            /\ CategoryRepositoryGetByID(cats, Val(t.category_id)).err # NoErr
    THEN "specified category does not exist"
    ELSE NoErr

\* todoService.validateTodoBusinessRules
validateTodoBusinessRules(t, cats, at) ==
    IF IsSome(t.due_date) /\ Val(t.due_date) < at - DueDateTolerance
    THEN "due date cannot be in the past"
    ELSE IF IsSome(t.category_id)
            /\ CategoryRepositoryGetByID(cats, Val(t.category_id)).err # NoErr
    THEN "specified category does not exist"
    ELSE NoErr

\* todoService.CreateTodo
TodoServiceCreateTodo(tds, cats, t, at) ==
    IF validateTodo(t) # NoErr THEN [todos |-> tds, err |-> validateTodo(t)]
    ELSE IF validateTodoBusinessRules(cleanTodoData(t), cats, at) # NoErr
    THEN [todos |-> tds, err |-> validateTodoBusinessRules(cleanTodoData(t), cats, at)]
    ELSE TodoRepositoryCreate(tds, cats, cleanTodoData(t), at)

\* todoService.GetTodoByID
TodoServiceGetTodoByID(tds, id) ==
    IF id = 0 THEN [err |-> "invalid todo ID", todo |-> None]
    ELSE TodoRepositoryGetByID(tds, id)

\* todoService.UpdateTodo
TodoServiceUpdateTodo(tds, cats, t, at) ==
    IF IsNil(t) THEN [todos |-> tds, err |-> NilPointerDereference]
    ELSE IF t.id = 0 THEN [todos |-> tds, err |-> "invalid todo ID"]
    ELSE IF validateTodo(t) # NoErr THEN [todos |-> tds, err |-> validateTodo(t)]
    ELSE IF validateTodoBusinessRules(cleanTodoData(t), cats, at) # NoErr
    THEN [todos |-> tds, err |-> validateTodoBusinessRules(cleanTodoData(t), cats, at)]
    ELSE TodoRepositoryUpdate(tds, cats, cleanTodoData(t), at)

\* todoService.DeleteTodo
TodoServiceDeleteTodo(tds, id) ==
    IF id = 0 THEN [todos |-> tds, err |-> "invalid todo ID"]
    ELSE TodoRepositoryDelete(tds, id)

\* todoService.ToggleTodoComplete
TodoServiceToggleTodoComplete(tds, cats, id, at) ==
    IF id = 0 THEN [todos |-> tds, err |-> "invalid todo ID"]
    ELSE TodoRepositoryToggleComplete(tds, cats, id, at)

\* ListTodos, ListCategories: the pagination defaults
ServicePagination(p) ==
    [p EXCEPT !.page = IF p.page <= 0 THEN 1 ELSE p.page,
              !.limit = IF p.limit <= 0 THEN DefaultLimit ELSE p.limit]

\* ListTodos, ListCategories: the search text trimmed
ServiceSearch(f) ==
    IF f.search # <<>> THEN [f EXCEPT !.search = TrimSpace(f.search)] ELSE f

\* todoService.ListTodos
TodoServiceListTodos(tds, f, p) ==
    IF f.priority # "" /\ ~IsValid(f.priority)
    THEN {ListResult("invalid priority filter", <<>>, PaginationResult(0, 0, 0),
                     [field |-> "", suffix |-> ""])}
    ELSE TodoRepositoryList(tds, ServiceSearch(f), ServicePagination(p))

----------------------------------------------------------------------------
(* services/category_service.go                                            *)

MaxNameLen == 100
HexColorLen == 7

\* isValidHexColor
isValidHexColor(color) ==
    /\ Len(color) = HexColorLen
    /\ color[1] = "#"
    /\ \A i \in 2..HexColorLen : IsHexDigit(color[i])

\* categoryService.validateCategory
validateCategory(c) ==
    IF IsNil(c) THEN "category cannot be nil"
    ELSE IF TrimSpace(c.name) = <<>> THEN "category name is required"
    ELSE IF Len(c.name) > MaxNameLen THEN "category name cannot exceed 100 characters"
    ELSE IF c.color # <<>> /\ ~isValidHexColor(c.color)
    THEN "invalid color format, must be a valid hex color (e.g., #FF0000)"
    ELSE NoErr

\* categoryService.cleanCategoryData
cleanCategoryData(c) ==
    [c EXCEPT !.name = TrimSpace(c.name),
              !.color = IF c.color # <<>> /\ ~HasHashPrefix(c.color)
                        THEN <<"#">> \o c.color ELSE c.color]

\* categoryService.CreateCategory
CategoryServiceCreateCategory(cats, c, at) ==
    IF validateCategory(c) # NoErr THEN [categories |-> cats, err |-> validateCategory(c)]
    ELSE CategoryRepositoryCreate(cats, cleanCategoryData(c), at)

\* categoryService.GetCategoryByID
CategoryServiceGetCategoryByID(cats, id) ==
    IF id = 0 THEN [err |-> "invalid category ID", category |-> None]
    ELSE CategoryRepositoryGetByID(cats, id)

\* categoryService.UpdateCategory
CategoryServiceUpdateCategory(cats, c, at) ==
    IF IsNil(c) THEN [categories |-> cats, err |-> NilPointerDereference]
    ELSE IF c.id = 0 THEN [categories |-> cats, err |-> "invalid category ID"]
    ELSE IF validateCategory(c) # NoErr
    THEN [categories |-> cats, err |-> validateCategory(c)]
    ELSE CategoryRepositoryUpdate(cats, cleanCategoryData(c), at)

\* categoryService.DeleteCategory
CategoryServiceDeleteCategory(cats, tds, id) ==
    IF id = 0 THEN [categories |-> cats, err |-> "invalid category ID"]
    ELSE CategoryRepositoryDelete(cats, tds, id)

\* categoryService.GetAllCategories
CategoryServiceGetAllCategories(cats) == CategoryRepositoryGetAll(cats)

\* categoryService.ListCategories
CategoryServiceListCategories(cats, f, p) ==
    CategoryRepositoryList(cats, ServiceSearch(f), ServicePagination(p))

----------------------------------------------------------------------------
(* Requests, one at a time: each action is one service call run to its end. *)

\* a request's models.Todo as the JSON binding builds it: no id but the URL's,
\* zero timestamps, no nested category
TodoRequest(id, title, completed, priority, due, cat) ==
    [priority |-> priority, completed |-> completed, id |-> id, category_id |-> cat,
     title |-> title, description |-> <<>>, due_date |-> due,
     created_at |-> ZeroTime]

CategoryRequest(id, name, color) ==
    [color |-> color, id |-> id, name |-> name, created_at |-> ZeroTime]

TodoIds == 0..MaxTodos
CategoryIds == 0..MaxCategories
CategoryRefs == {None} \cup {Some(c) : c \in 1..MaxCategories}

TodoInputs ==
    {TodoRequest(0, title, completed, "", None, cat) :
        title \in {<<"a">>, <<" ">>}, completed \in BOOLEAN, cat \in CategoryRefs}

CategoryInputs ==
    {CategoryRequest(0, name, <<>>) : name \in {<<"w">>, <<"h">>, <<" ">>}}

Response(op, err, id, cat) == [id |-> id, category_id |-> cat, err |-> err, op |-> op]

Init ==
    /\ todos = <<>>
    /\ categories = <<>>
    /\ now = StartTime
    /\ resp = Response("none", NoErr, 0, None)
    /\ reqs = <<>>

CreateTodo(t) ==
    LET r == TodoServiceCreateTodo(todos, categories, t, now) IN
    /\ Len(r.todos) <= MaxTodos
    /\ todos' = r.todos
    /\ resp' = Response("CreateTodo", r.err, Len(r.todos), t.category_id)
    /\ UNCHANGED <<categories, now, reqs>>

UpdateTodo(id, t) ==
    LET r == TodoServiceUpdateTodo(todos, categories, [t EXCEPT !.id = id], now) IN
    /\ todos' = r.todos
    /\ resp' = Response("UpdateTodo", r.err, id, t.category_id)
    /\ UNCHANGED <<categories, now, reqs>>

DeleteTodo(id) ==
    LET r == TodoServiceDeleteTodo(todos, id) IN
    /\ todos' = r.todos
    /\ resp' = Response("DeleteTodo", r.err, id, None)
    /\ UNCHANGED <<categories, now, reqs>>

ToggleTodoComplete(id) ==
    LET r == TodoServiceToggleTodoComplete(todos, categories, id, now) IN
    /\ todos' = r.todos
    /\ resp' = Response("ToggleTodoComplete", r.err, id, None)
    /\ UNCHANGED <<categories, now, reqs>>

\* a create while the table holds at most max rows
CreateCategoryUpTo(max, c) ==
    LET r == CategoryServiceCreateCategory(categories, c, now) IN
    /\ Len(r.categories) <= max
    /\ categories' = r.categories
    /\ resp' = Response("CreateCategory", r.err, Len(r.categories), None)
    /\ UNCHANGED <<todos, now, reqs>>

CreateCategory(c) == CreateCategoryUpTo(MaxCategories, c)

UpdateCategory(id, c) ==
    LET r == CategoryServiceUpdateCategory(categories, [c EXCEPT !.id = id], now) IN
    /\ categories' = r.categories
    /\ resp' = Response("UpdateCategory", r.err, id, None)
    /\ UNCHANGED <<todos, now, reqs>>

DeleteCategory(id) ==
    LET r == CategoryServiceDeleteCategory(categories, todos, id) IN
    /\ categories' = r.categories
    /\ resp' = Response("DeleteCategory", r.err, id, None)
    /\ UNCHANGED <<todos, now, reqs>>

\* a create or update called with a nil pointer
NilCalls == {"CreateTodo(nil)", "UpdateTodo(nil)", "CreateCategory(nil)", "UpdateCategory(nil)"}

CallWithNil(op) ==
    LET t == CASE op = "CreateTodo(nil)" -> TodoServiceCreateTodo(todos, categories, Nil, now)
               [] op = "UpdateTodo(nil)" -> TodoServiceUpdateTodo(todos, categories, Nil, now)
               [] OTHER -> [todos |-> todos, err |-> NoErr]
        c == CASE op = "CreateCategory(nil)" -> CategoryServiceCreateCategory(categories, Nil, now)
               [] op = "UpdateCategory(nil)" -> CategoryServiceUpdateCategory(categories, Nil, now)
               [] OTHER -> [categories |-> categories, err |-> NoErr] IN
    /\ todos' = t.todos
    /\ categories' = c.categories
    /\ resp' = Response(op, IF t.err # NoErr THEN t.err ELSE c.err, 0, None)
    /\ UNCHANGED <<now, reqs>>

GetCategoryByID(id) ==
    LET r == CategoryServiceGetCategoryByID(categories, id) IN
    /\ resp' = Response("GetCategoryByID", r.err, id, None)
    /\ UNCHANGED <<todos, categories, now, reqs>>

GetAllCategories ==
    \E rows \in CategoryServiceGetAllCategories(categories) :
        /\ resp' = [err |-> NoErr, rows |-> rows, op |-> "GetAllCategories"]
        /\ UNCHANGED <<todos, categories, now, reqs>>

Params(page, limit, sortBy, sortOrder) ==
    [limit |-> limit, page |-> page, sort_order |-> sortOrder, sort_by |-> sortBy]

TodoFilters(search, completed, cat, priority) ==
    [priority |-> priority, completed |-> completed, category_id |-> cat,
     search |-> search]

CategoryFilters(search) == [search |-> search]

\* todoService.ListTodos
ListTodos(f, p) ==
    \E r \in TodoServiceListTodos(todos, f, p) :
        /\ resp' = [err |-> r.err, rows |-> r.rows, pagination |-> r.pagination, order |-> r.order,
                    op |-> "ListTodos", filters |-> f, params |-> p]
        /\ UNCHANGED <<todos, categories, now, reqs>>

\* categoryService.ListCategories
ListCategories(f, p) ==
    \E r \in CategoryServiceListCategories(categories, f, p) :
        /\ resp' = [err |-> r.err, rows |-> r.rows, pagination |-> r.pagination, order |-> r.order,
                    op |-> "ListCategories", filters |-> f, params |-> p]
        /\ UNCHANGED <<todos, categories, now, reqs>>

Next ==
    \/ \E t \in TodoInputs : CreateTodo(t)
    \/ \E id \in TodoIds, t \in TodoInputs : UpdateTodo(id, t)
    \/ \E id \in TodoIds : DeleteTodo(id)
    \/ \E id \in TodoIds : ToggleTodoComplete(id)
    \/ \E c \in CategoryInputs : CreateCategory(c)
    \/ \E id \in CategoryIds, c \in CategoryInputs : UpdateCategory(id, c)
    \/ \E id \in CategoryIds : DeleteCategory(id)
    \/ \E id \in CategoryIds : GetCategoryByID(id)
    \/ GetAllCategories
    \/ ListCategories(CategoryFilters(<<>>), Params(0, 0, "", ""))
    \/ \E op \in NilCalls : CallWithNil(op)

Spec == Init /\ [][Next]_vars

----------------------------------------------------------------------------
(* handlers: the status a handler answers a service error with             *)

StatusOK == 200
StatusBadRequest == 400
StatusNotFound == 404
StatusConflict == 409
StatusInternalServerError == 500

\* strings.Contains(err.Error(), ...) on the messages the services return
ContainsNotFound(err) ==
    err \in {"todo not found", "category not found"}

ContainsAssociatedTodos(err) ==
    err = "cannot delete category with associated todos"

\* CategoryHandler.DeleteCategory
CategoryHandlerDeleteCategory(err) ==
    IF err = NoErr THEN StatusOK
    ELSE IF ContainsNotFound(err) THEN StatusNotFound
    ELSE IF ContainsAssociatedTodos(err) THEN StatusConflict
    ELSE StatusInternalServerError

ContainsDoesNotExist(err) == err = "specified category does not exist"

ContainsPast(err) == err = "due date cannot be in the past"

ContainsInvalid(err) ==
    err \in {"invalid priority value", "invalid todo ID", "invalid category ID",
             "invalid value", "invalid priority filter",
             "invalid color format, must be a valid hex color (e.g., #FF0000)"}

ContainsAlreadyExists(err) == err = "category name already exists"

StatusCreated == 201

\* TodoHandler.CreateTodo
TodoHandlerCreateTodo(err) ==
    IF err = NoErr THEN StatusCreated
    ELSE IF ContainsNotFound(err) \/ ContainsDoesNotExist(err) THEN StatusBadRequest
    ELSE IF ContainsPast(err) \/ ContainsInvalid(err) THEN StatusBadRequest
    ELSE StatusInternalServerError

\* TodoHandler.GetTodo, DeleteTodo, ToggleTodoComplete and
\* CategoryHandler.GetCategory: "not found" is the one text looked for
HandlerNotFoundOnly(err) ==
    IF err = NoErr THEN StatusOK
    ELSE IF ContainsNotFound(err) THEN StatusNotFound
    ELSE StatusInternalServerError

\* TodoHandler.UpdateTodo
TodoHandlerUpdateTodo(err) ==
    IF err = NoErr THEN StatusOK
    ELSE IF ContainsNotFound(err) THEN StatusNotFound
    ELSE IF ContainsPast(err) \/ ContainsInvalid(err) \/ ContainsDoesNotExist(err)
    THEN StatusBadRequest
    ELSE StatusInternalServerError

\* CategoryHandler.CreateCategory
CategoryHandlerCreateCategory(err) ==
    IF err = NoErr THEN StatusCreated
    ELSE IF ContainsAlreadyExists(err) THEN StatusConflict
    ELSE StatusInternalServerError

\* CategoryHandler.UpdateCategory
CategoryHandlerUpdateCategory(err) ==
    IF err = NoErr THEN StatusOK
    ELSE IF ContainsNotFound(err) THEN StatusNotFound
    ELSE IF ContainsAlreadyExists(err) THEN StatusConflict
    ELSE StatusInternalServerError

\* the status the handler of a service call answers the call's error with
HandlerStatus(op, err) ==
    CASE op = "CreateTodo" -> TodoHandlerCreateTodo(err)
      [] op = "UpdateTodo" -> TodoHandlerUpdateTodo(err)
      [] op \in {"GetTodoByID", "DeleteTodo", "ToggleTodoComplete", "GetCategoryByID"}
             -> HandlerNotFoundOnly(err)
      [] op = "CreateCategory" -> CategoryHandlerCreateCategory(err)
      [] op = "UpdateCategory" -> CategoryHandlerUpdateCategory(err)
      [] op = "DeleteCategory" -> CategoryHandlerDeleteCategory(err)

----------------------------------------------------------------------------
(* Referential integrity of todos.category_id                              *)

\* category id c names a row that is there and is not soft-deleted
Resolves(cats, c) == c \in 1..Len(cats) /\ ~cats[c].deleted

ActiveRefs(tds, c) == {i \in 1..Len(tds) : ~tds[i].deleted /\ tds[i].category_id = Some(c)}
DeletedRefs(tds, c) == {i \in 1..Len(tds) : tds[i].deleted /\ tds[i].category_id = Some(c)}

C3_DeleteCategoryClearsReferences ==
    (resp.op = "DeleteCategory" /\ resp.err = NoErr)
        => \A i \in 1..Len(todos) : todos[i].category_id # Some(resp.id)

\* C4: CreateTodo and UpdateTodo naming a category id that does not resolve
\* (never created, or soft-deleted) fail with an error and leave the table of
\* todos as it was.
C4_UnresolvedCategoryRejected ==
    \A t \in TodoInputs :
        (IsSome(t.category_id) /\ ~Resolves(categories, Val(t.category_id))) =>
            /\ TodoServiceCreateTodo(todos, categories, t, now).err # NoErr
            /\ TodoServiceCreateTodo(todos, categories, t, now).todos = todos
            /\ \A id \in TodoIds :
                  LET u == TodoServiceUpdateTodo(todos, categories, [t EXCEPT !.id = id], now) IN
                  u.err # NoErr /\ u.todos = todos

\* a create naming a soft-deleted category was just refused, with a todo stored
C4_Witness ==
    /\ resp.op = "CreateTodo"
    /\ resp.err = "specified category does not exist"
    /\ IsSome(resp.category_id)
    /\ Val(resp.category_id) \in 1..Len(categories)
    /\ categories[Val(resp.category_id)].deleted
    /\ Len(todos) > 0

----------------------------------------------------------------------------
(* Requests served concurrently: every request runs on its own connection  *)
(* and no method wraps its statements in a transaction, so each statement  *)
(* of a service call is one step and other requests' steps may fall        *)
(* between two of them.                                                    *)

Slots == 1..MaxRequests

Idle == [err |-> NoErr, op |-> "idle", pc |-> "idle"]

Request(op, pc, todo, id) ==
    [id |-> id, err |-> NoErr, todo |-> todo, op |-> op, pc |-> pc]

Finished(r, err) == [r EXCEPT !.pc = "done", !.err = err]

RaceTodoInputs ==
    {TodoRequest(0, <<"a">>, FALSE, "", None, cat) : cat \in CategoryRefs}

InFlightCreates == Cardinality({s \in Slots : reqs[s].op = "CreateTodo"})

InitRace ==
    /\ todos = <<>>
    /\ categories = <<>>
    /\ now = StartTime
    /\ resp = Response("none", NoErr, 0, None)
    /\ reqs = [s \in Slots |-> Idle]

\* todoService.CreateTodo up to its first statement: validateTodo, cleanTodoData
\* and the due-date rule touch no table
BeginCreateTodo(s, t) ==
    LET c == cleanTodoData(t)
        r == Request("CreateTodo", "", c, 0) IN
    /\ reqs[s].pc = "idle"
    /\ Len(todos) + InFlightCreates < MaxTodos
    /\ reqs' = [reqs EXCEPT ![s] =
          IF validateTodo(t) # NoErr THEN Finished(r, validateTodo(t))
          ELSE IF IsSome(c.due_date) /\ Val(c.due_date) < now - DueDateTolerance
          THEN Finished(r, "due date cannot be in the past")
          ELSE IF IsSome(c.category_id) THEN [r EXCEPT !.pc = "serviceCheck"]
          ELSE [r EXCEPT !.pc = "write"]]
    /\ UNCHANGED <<todos, categories, now, resp>>

\* todoService.UpdateTodo up to its first statement
BeginUpdateTodo(s, id, t) ==
    LET c == cleanTodoData([t EXCEPT !.id = id])
        r == Request("UpdateTodo", "", c, id) IN
    /\ reqs[s].pc = "idle"
    /\ reqs' = [reqs EXCEPT ![s] =
          IF id = 0 THEN Finished(r, "invalid todo ID")
          ELSE IF validateTodo(t) # NoErr THEN Finished(r, validateTodo(t))
          ELSE IF IsSome(c.due_date) /\ Val(c.due_date) < now - DueDateTolerance
          THEN Finished(r, "due date cannot be in the past")
          ELSE IF IsSome(c.category_id) THEN [r EXCEPT !.pc = "serviceCheck"]
          ELSE [r EXCEPT !.pc = "firstTodo"]]
    /\ UNCHANGED <<todos, categories, now, resp>>

\* validateTodoBusinessRules: s.categoryRepo.GetByID(*todo.CategoryID)
StepServiceCheck(s) ==
    LET r == reqs[s] IN
    /\ r.pc = "serviceCheck"
    /\ reqs' = [reqs EXCEPT ![s] =
          IF CategoryRepositoryGetByID(categories, Val(r.todo.category_id)).err # NoErr
          THEN Finished(r, "specified category does not exist")
          ELSE IF r.op = "UpdateTodo" THEN [r EXCEPT !.pc = "firstTodo"]
          ELSE [r EXCEPT !.pc = "repositoryCheck"]]
    /\ UNCHANGED <<todos, categories, now, resp>>

\* todoRepository.Update: r.db.First(&existingTodo, todo.ID)
StepFirstTodo(s) ==
    LET r == reqs[s] IN
    /\ r.pc = "firstTodo"
    /\ reqs' = [reqs EXCEPT ![s] =
          IF First(todos, r.id) = None THEN Finished(r, "todo not found")
          ELSE IF IsSome(r.todo.category_id) THEN [r EXCEPT !.pc = "repositoryCheck"]
          ELSE [r EXCEPT !.pc = "write"]]
    /\ UNCHANGED <<todos, categories, now, resp>>

\* todoRepository.Create / Update: r.db.First(&category, *todo.CategoryID)
StepRepositoryCheck(s) ==
    LET r == reqs[s] IN
    /\ r.pc = "repositoryCheck"
    /\ reqs' = [reqs EXCEPT ![s] =
          IF First(categories, Val(r.todo.category_id)) = None
          THEN Finished(r, "category not found")
          ELSE [r EXCEPT !.pc = "write"]]
    /\ UNCHANGED <<todos, categories, now, resp>>

\* todoRepository.Create: r.db.Create(todo); todoRepository.Update: r.db.Save(todo)
StepWrite(s) ==
    LET r == reqs[s]
        w == IF r.op = "CreateTodo" THEN InsertTodo(todos, categories, r.todo, now)
             ELSE SaveTodo(todos, categories, r.id, r.todo, now) IN
    /\ r.pc = "write"
    /\ todos' = w.todos
    /\ reqs' = [reqs EXCEPT ![s] = Finished(r, w.err)]
    /\ UNCHANGED <<categories, now, resp>>

\* categoryService.DeleteCategory up to its first statement
BeginDeleteCategory(s, id) ==
    LET r == Request("DeleteCategory", "", None, id) IN
    /\ reqs[s].pc = "idle"
    /\ reqs' = [reqs EXCEPT ![s] =
          IF id = 0 THEN Finished(r, "invalid category ID")
          ELSE [r EXCEPT !.pc = "firstCategory"]]
    /\ UNCHANGED <<todos, categories, now, resp>>

\* categoryRepository.Delete: r.db.First(&category, id)
StepFirstCategory(s) ==
    LET r == reqs[s] IN
    /\ r.pc = "firstCategory"
    /\ reqs' = [reqs EXCEPT ![s] =
          IF First(categories, r.id) = None THEN Finished(r, "category not found")
          ELSE [r EXCEPT !.pc = "count"]]
    /\ UNCHANGED <<todos, categories, now, resp>>

\* categoryRepository.Delete: the count of associated todos
StepCount(s) ==
    LET r == reqs[s] IN
    /\ r.pc = "count"
    /\ reqs' = [reqs EXCEPT ![s] =
          IF CountTodosOfCategory(todos, r.id) > 0
          THEN Finished(r, "cannot delete category with associated todos")
          ELSE [r EXCEPT !.pc = "delete"]]
    /\ UNCHANGED <<todos, categories, now, resp>>

\* categoryRepository.Delete: r.db.Delete(&category)
StepSoftDelete(s) ==
    LET r == reqs[s] IN
    /\ r.pc = "delete"
    /\ categories' = SoftDelete(categories, r.id)
    /\ reqs' = [reqs EXCEPT ![s] = Finished(r, NoErr)]
    /\ UNCHANGED <<todos, now, resp>>

\* the handler answers and the request is over
Return(s) ==
    LET r == reqs[s] IN
    /\ r.pc = "done"
    /\ resp' = Response(r.op, r.err, r.id,
                        IF r.op = "DeleteCategory" THEN None ELSE r.todo.category_id)
    /\ reqs' = [reqs EXCEPT ![s] = Idle]
    /\ UNCHANGED <<todos, categories, now>>

NextRace ==
    \/ \E c \in CategoryInputs : CreateCategory(c)
    \/ \E s \in Slots, t \in RaceTodoInputs : BeginCreateTodo(s, t)
    \/ \E s \in Slots, id \in 1..MaxTodos, t \in RaceTodoInputs : BeginUpdateTodo(s, id, t)
    \/ \E s \in Slots, id \in 1..MaxCategories : BeginDeleteCategory(s, id)
    \/ \E s \in Slots : StepServiceCheck(s)
    \/ \E s \in Slots : StepFirstTodo(s)
    \/ \E s \in Slots : StepRepositoryCheck(s)
    \/ \E s \in Slots : StepWrite(s)
    \/ \E s \in Slots : StepFirstCategory(s)
    \/ \E s \in Slots : StepCount(s)
    \/ \E s \in Slots : StepSoftDelete(s)
    \/ \E s \in Slots : Return(s)

SpecRace == InitRace /\ [][NextRace]_vars

Quiescent == \A s \in Slots : reqs[s].pc = "idle"

\* C5: when CreateTodo or UpdateTodo naming category c runs concurrently with
\* DeleteCategory(c), statement by statement, every final state is safe: once
\* all requests have returned, no non-deleted todo references a soft-deleted
\* category.
C5_RaceLeavesNoDanglingReference ==
    Quiescent =>
        \A i \in 1..Len(todos) :
            (~todos[i].deleted /\ IsSome(todos[i].category_id))
                => Resolves(categories, Val(todos[i].category_id))


----------------------------------------------------------------------------
(* The pagination arithmetic on its own: a drawn PaginationParams or       *)
(* PaginationResult, and the methods applied to it.                        *)

PageNumbers == -1..MaxPage
Limits == (-1..MaxPage) \cup {DefaultLimit, MaxLimit - 1, MaxLimit, MaxLimit + 1, 2 * MaxLimit}
PerPages == (-1..MaxPage) \cup {DefaultLimit}
Totals == 0..MaxTotal

ParamInputs == {Params(page, limit, "", "") : page \in PageNumbers, limit \in Limits}
ResultInputs == {PaginationResult(1, perPage, total) : perPage \in PerPages, total \in Totals}

InitPage ==
    /\ todos = <<>>
    /\ categories = <<>>
    /\ now = StartTime
    /\ reqs = <<>>
    /\ resp \in {[op |-> "PaginationParams", params |-> p] : p \in ParamInputs}
            \cup {[op |-> "PaginationResult", input |-> r] : r \in ResultInputs}

\* offset := pagination.GetOffset(); limit := pagination.GetLimit()
ApplyPagination ==
    /\ resp.op = "PaginationParams"
    /\ resp' = [limit |-> GetLimit(AfterGetOffset(resp.params)),
                page |-> AfterGetOffset(resp.params).page,
                offset |-> GetOffset(resp.params),
                op |-> "GetOffset",
                params |-> resp.params]
    /\ UNCHANGED <<todos, categories, now, reqs>>

\* paginationResult.CalculateTotalPages()
ApplyCalculateTotalPages ==
    /\ resp.op = "PaginationResult"
    /\ resp' = [op |-> "CalculateTotalPages", input |-> resp.input,
                result |-> CalculateTotalPages(resp.input)]
    /\ UNCHANGED <<todos, categories, now, reqs>>

NextPage == ApplyPagination \/ ApplyCalculateTotalPages

SpecPage == InitPage /\ [][NextPage]_vars

C8_CalculateTotalPages ==
    resp.op = "CalculateTotalPages" =>
        LET total == resp.input.total
            perPage == resp.input.per_page
            pages == resp.result.total_pages IN
        /\ perPage > 0 =>
               /\ pages = (total + perPage - 1) \div perPage
               /\ pages * perPage >= total
               /\ (pages - 1) * perPage < total \/ (total = 0 /\ pages = 0)
        /\ perPage <= 0 => pages = 0
        /\ resp.result.total = total /\ resp.result.per_page = perPage

C8_Witness ==
    /\ resp.op = "CalculateTotalPages"
    /\ resp.input.total = 25
    /\ resp.input.per_page = 10
    /\ resp.result.total_pages = 3


----------------------------------------------------------------------------
(* The list endpoints over a drawn store: each action is one service call. *)

ListRow(title, completed, priority, cat, deleted) ==
    [priority |-> priority, completed |-> completed, deleted |-> deleted,
     category_id |-> cat, title |-> title, description |-> <<>>,
     due_date |-> None, created_at |-> StartTime, updated_at |-> StartTime]

\* the stores of at most MaxListRows rows drawn from a set of rows
Stores(rows) == UNION {[1..n -> rows] : n \in 0..MaxListRows}

----------------------------------------------------------------------------
(* Sort resolution: lists requested with every sort field and direction.   *)

SortRows ==
    {ListRow(<<"a">>, FALSE, PriorityHigh, None, FALSE),
     ListRow(<<"b">>, TRUE, PriorityLow, None, FALSE),
     ListRow(<<"B">>, FALSE, PriorityMedium, None, FALSE)}

SortBys ==
    {"", "title", "completed", "priority", "due_date", "created_at", "updated_at",
     "name", "id", "deleted_at"}

SortOrders == {"", "asc", "desc", "ASC", "DESC", "ascending"}

SortInputs == {Params(1, 0, sortBy, sortOrder) : sortBy \in SortBys, sortOrder \in SortOrders}

InitSort ==
    /\ todos \in Stores(SortRows)
    /\ categories = <<CategoryRow(CategoryRequest(0, <<"w">>, DefaultColor), StartTime)>>
    /\ now = StartTime
    /\ resp = Response("none", NoErr, 0, None)
    /\ reqs = <<>>

NextSort ==
    \/ \E p \in SortInputs : ListTodos(TodoFilters(<<>>, None, None, ""), p)
    \/ \E p \in SortInputs : ListCategories(CategoryFilters(<<>>), p)

SpecSort == InitSort /\ [][NextSort]_vars

ListOps == {"ListTodos", "ListCategories"}

\* C9: a list query sorts ascending only when the requested direction is
\* exactly "asc"; with no direction and with any other text ("DESC",
\* "ascending", ...) it sorts descending.
C9_SortDirection ==
    resp.op \in ListOps =>
        SqlDirection(resp.order.suffix) =
            IF resp.params.sort_order = "asc" THEN "asc" ELSE "desc"

----------------------------------------------------------------------------
(* Filtering and paging: lists requested with every combination of         *)
(* filters over every drawn store. A list call leaves the store as it is,  *)
(* so one call from each store stands for every later one.                 *)

ListTitles == {<<"a", "b">>, <<"B">>}

ListRows ==
    {ListRow(title, completed, priority, cat, deleted) :
        title \in ListTitles, completed \in BOOLEAN,
        priority \in {PriorityHigh, PriorityLow}, cat \in CategoryRefs,
        deleted \in BOOLEAN}

FilterInputs ==
    {TodoFilters(search, completed, cat, priority) :
        search \in {<<>>, <<"A">>, <<" ">>, <<"_">>, <<"%">>},
        completed \in {None, Some(FALSE)},
        cat \in CategoryRefs,
        priority \in {"", PriorityHigh, "urgent"}}

PageInputs == {Params(page, limit, "", "") : page \in {0, MaxPage - 1}, limit \in {0, 1}}

InitList ==
    /\ todos \in Stores(ListRows)
    /\ categories = [c \in 1..MaxCategories |->
                        CategoryRow(CategoryRequest(0, <<"w">>, DefaultColor), StartTime)]
    /\ now = StartTime
    /\ resp = Response("none", NoErr, 0, None)
    /\ reqs = <<>>

NextList ==
    /\ resp.op = "none"
    /\ \E f \in FilterInputs, p \in PageInputs : ListTodos(f, p)

SpecList == InitList /\ [][NextList]_vars

\* strings.Contains(text, sub)
Contains(text, sub) ==
    \E i \in 0..(Len(text) - Len(sub)) : SubSeq(text, i + 1, i + Len(sub)) = sub

\* the row is not deleted and passes every filter that is present; the
\* search filter is a case-insensitive substring match on the title
Satisfies(row, f) ==
    /\ ~row.deleted
    /\ IsSome(f.completed) => row.completed = Val(f.completed)
    /\ IsSome(f.category_id) => row.category_id = f.category_id
    /\ f.priority # "" => row.priority = f.priority
    /\ TrimSpace(f.search) # <<>> =>
           Contains(ToLower(row.title), ToLower(TrimSpace(f.search)))

ValidFilters(f) == f.priority = "" \/ f.priority \in {"low", "medium", "high"}

ListRespectsFilters ==
    /\ resp.err = NoErr
    /\ \A k \in 1..Len(resp.rows) :
           /\ resp.rows[k] \in 1..Len(todos)
           /\ Satisfies(todos[resp.rows[k]], resp.filters)
    /\ Len(resp.rows) <= (IF resp.params.limit <= 0 THEN 10
                          ELSE IF resp.params.limit > 100 THEN 100
                          ELSE resp.params.limit)
    /\ resp.pagination.total =
           Cardinality({i \in 1..Len(todos) : Satisfies(todos[i], resp.filters)})

\* C6: a ListTodos call with valid filters returns only non-deleted todos
\* that satisfy every present filter (completed, category_id, priority,
\* search), at most the effective limit of them, and reports as
\* pagination.total the number of all non-deleted todos satisfying the
\* filters, whatever the page and limit.
C6_ListRespectsFilters ==
    (resp.op = "ListTodos" /\ ValidFilters(resp.filters)) => ListRespectsFilters

\* the same for the calls whose search text holds neither % nor _
ListRespectsFiltersWithoutWildcards ==
    (/\ resp.op = "ListTodos"
     /\ ValidFilters(resp.filters)
     /\ \A k \in 1..Len(resp.filters.search) : resp.filters.search[k] \notin {"%", "_"})
        => ListRespectsFilters


----------------------------------------------------------------------------
(* Sorting by priority                                                     *)

\* the severity rank of a priority: high 1, medium 2, low 3
Severity(p) == IF p = "high" THEN 1 ELSE IF p = "medium" THEN 2 ELSE 3

\* C11: todos listed with sort_by priority come in severity order, never in
\* alphabetical order: with direction "asc" every high todo precedes every
\* medium one and every medium one every low one; with direction "desc" and
\* with no direction the order is low, medium, high.
C11_PrioritySortBySeverity ==
    (/\ resp.op = "ListTodos"
     /\ resp.params.sort_by = "priority"
     /\ resp.params.sort_order \in {"asc", "desc", ""})
        => /\ resp.err = NoErr
           /\ Len(resp.rows) = Len(todos)
           /\ \A i, j \in 1..Len(resp.rows) :
                  i < j =>
                      LET a == Severity(todos[resp.rows[i]].priority)
                          b == Severity(todos[resp.rows[j]].priority) IN
                      IF resp.params.sort_order = "asc" THEN a <= b ELSE a >= b

C11_Witness ==
    /\ resp.op = "ListTodos"
    /\ resp.params.sort_by = "priority"
    /\ resp.params.sort_order = "asc"
    /\ Len(resp.rows) = 2
    /\ todos[resp.rows[1]].priority = "medium"
    /\ todos[resp.rows[2]].priority = "low"


----------------------------------------------------------------------------
(* The search filter                                                       *)

\* C12: a search text that is not empty after trimming selects exactly the
\* non-deleted todos whose title contains the trimmed text as a
\* case-insensitive literal substring, also when the text holds % or _; a
\* search text of whitespace only selects every non-deleted todo.
C12_SearchIsLiteralSubstring ==
    (/\ resp.op = "ListTodos"
     /\ resp.filters.completed = None
     /\ resp.filters.category_id = None
     /\ resp.filters.priority = ""
     /\ resp.params.page = 0
     /\ resp.params.limit = 0)
        => LET text == ToLower(TrimSpace(resp.filters.search)) IN
           {resp.rows[k] : k \in 1..Len(resp.rows)} =
               {i \in 1..Len(todos) :
                   /\ ~todos[i].deleted
                   /\ text # <<>> => Contains(ToLower(todos[i].title), text)}


----------------------------------------------------------------------------
(* Toggles over a drawn store while the clock advances: the only writes    *)
(* are toggles, served one after another.                                  *)

ToggleRows ==
    {ListRow(<<"a">>, completed, PriorityMedium, None, deleted) :
        completed \in BOOLEAN, deleted \in BOOLEAN}

InitToggle ==
    /\ todos \in Stores(ToggleRows)
    /\ categories = <<>>
    /\ now = StartTime
    /\ resp = Response("none", NoErr, 0, None)
    /\ reqs = <<>>

\* time passes between two requests
Tick ==
    /\ now < StartTime + MaxTicks
    /\ now' = now + 1
    /\ UNCHANGED <<todos, categories, resp, reqs>>

NextToggle ==
    \/ Tick
    \/ \E id \in TodoIds : ToggleTodoComplete(id)

SpecToggle == InitToggle /\ [][NextToggle]_vars

\* C13 as stated: a successful toggle inverts the stored completion flag and
\* changes no other field of the todo and no other row; a toggle of an id
\* that does not resolve fails with "todo not found" and changes nothing.
C13_ToggleChangesOnlyCompleted ==
    [][\A id \in 1..MaxTodos :
           ToggleTodoComplete(id) =>
               IF First(todos, id) = None
               THEN resp'.err = "todo not found" /\ todos' = todos
               ELSE /\ resp'.err = NoErr
                    /\ todos' = [todos EXCEPT ![id].completed = ~todos[id].completed]]_vars

\* C13, amended: a successful toggle inverts the stored completion flag, sets
\* the todo's updated_at to the time of the call and changes no other field
\* of the todo and no other row (so two toggles in a row restore the
\* completion value); a toggle of an id that does not resolve fails with
\* "todo not found" and changes nothing.
C13_ToggleInvertsCompleted ==
    [][\A id \in 1..MaxTodos :
           ToggleTodoComplete(id) =>
               IF First(todos, id) = None
               THEN resp'.err = "todo not found" /\ todos' = todos
               ELSE /\ resp'.err = NoErr
                    /\ todos' = [todos EXCEPT ![id].completed = ~todos[id].completed,
                                              ![id].updated_at = now]]_vars

C13_Witness ==
    /\ resp.op = "ToggleTodoComplete"
    /\ resp.err = NoErr
    /\ todos[resp.id].completed
    /\ todos[resp.id].updated_at = StartTime + MaxTicks
    /\ Len(todos) = 2
    /\ todos[3 - resp.id].updated_at = StartTime + 1


----------------------------------------------------------------------------
(* Deleting a category                                                     *)

\* a color of the form #RRGGBB
WellFormedColor(color) ==
    /\ Len(color) = 7
    /\ color[1] = "#"
    /\ \A i \in 2..7 : color[i] \in {"0", "1", "2", "3", "4", "5", "6", "7", "8", "9",
                                     "A", "B", "C", "D", "E", "F",
                                     "a", "b", "c", "d", "e", "f"}

\* a category the service's validation accepts
ValidCategoryInput(c) ==
    /\ TrimSpace(c.name) # <<>>
    /\ Len(c.name) <= 100
    /\ c.color = <<>> \/ WellFormedColor(c.color)

\* no non-deleted todo references the category
Unreferenced(id) ==
    \A i \in 1..Len(todos) : ~(~todos[i].deleted /\ todos[i].category_id = Some(id))

\* the category was soft-deleted by an earlier DeleteCategory
WasDeleted(id) == id \in 1..Len(categories) /\ categories[id].deleted

\* what C14 says of one step, for the update inputs in the set
DeletedCategoryNotFound(id, updates) ==
    /\ (DeleteCategory(id) /\ First(categories, id) # None /\ Unreferenced(id))
           => /\ resp'.err = NoErr
              /\ categories' = [categories EXCEPT ![id].deleted = TRUE]
    /\ WasDeleted(id)
           => /\ categories'[id] = categories[id]
              /\ GetCategoryByID(id) => resp'.err = "category not found"
              /\ DeleteCategory(id) => resp'.err = "category not found"
              /\ \A c \in updates :
                     UpdateCategory(id, c) => resp'.err = "category not found"
              /\ resp'.op \in {"ListCategories", "GetAllCategories"}
                     => \A k \in 1..Len(resp'.rows) : resp'.rows[k] # id

\* C14 as stated: DeleteCategory of an existing category that no non-deleted
\* todo references succeeds and marks the row deleted without removing it;
\* from then on every GetCategoryByID, UpdateCategory and DeleteCategory for
\* the id answers "category not found" and no list of categories has it.
C14_DeletedCategoryNotFound ==
    [][\A id \in 1..MaxCategories : DeletedCategoryNotFound(id, CategoryInputs)]_vars

\* C14, amended: the same, with "category not found" promised only to an
\* UpdateCategory whose category passes validation (a blank or over-long
\* name or a malformed color is refused with its validation error before
\* the id is looked up).
C14_DeletedCategoryNotFoundToValidUpdate ==
    [][\A id \in 1..MaxCategories :
           DeletedCategoryNotFound(id, {c \in CategoryInputs : ValidCategoryInput(c)})]_vars

C14_Witness ==
    /\ resp.op = "GetCategoryByID"
    /\ resp.err = "category not found"
    /\ WasDeleted(resp.id)
    /\ \E i \in 1..Len(todos) : todos[i].deleted /\ todos[i].category_id = Some(resp.id)


----------------------------------------------------------------------------
(* The status of a validation failure                                      *)

\* the errors the services' validation returns
ValidationErrors ==
    {"todo title is required", "todo title cannot exceed 255 characters",
     "todo description cannot exceed 5000 characters", "invalid priority value",
     "due date cannot be in the past", "specified category does not exist",
     "invalid todo ID", "invalid category ID", "category name is required",
     "category name cannot exceed 100 characters",
     "invalid color format, must be a valid hex color (e.g., #FF0000)"}

HandledOps ==
    {"CreateTodo", "UpdateTodo", "GetTodoByID", "DeleteTodo", "ToggleTodoComplete",
     "CreateCategory", "UpdateCategory", "GetCategoryByID", "DeleteCategory"}

\* C15: every validation failure of the service layer (a blank or over-long
\* title, an over-long description, an invalid priority, a due date too far
\* in the past, a category that does not exist, id 0, a blank or over-long
\* category name, a malformed color) is answered with HTTP 400, never 500.
C15_ValidationFailureIs400 ==
    (resp.op \in HandledOps /\ resp.err \in ValidationErrors)
        => HandlerStatus(resp.op, resp.err) = 400


----------------------------------------------------------------------------
(* Nil inputs                                                              *)

\* C16: CreateTodo, UpdateTodo, CreateCategory and UpdateCategory called with
\* nil each return an error (none of them panics) and leave the store as it
\* was.
C16_NilInputRejected ==
    [][\A op \in NilCalls :
           CallWithNil(op) =>
               /\ resp'.err # NoErr
               /\ resp'.err # "panic: runtime error: invalid memory address or nil pointer dereference"
               /\ todos' = todos
               /\ categories' = categories]_vars


----------------------------------------------------------------------------
(* Categories on their own: creates, updates and deletes with every        *)
(* combination of name and color, over a table of up to MaxCategoryRows.   *)

Red == <<"#", "F", "F", "0", "0", "0", "0">>

CategoryNames == {<<"w">>, <<"h">>, <<" ", "w">>, <<>>}
CategoryColors == {<<>>, Red, Tail(Red), <<"#", "F", "F">>}

CategoryRequests ==
    {CategoryRequest(0, name, color) : name \in CategoryNames, color \in CategoryColors}

NextCategory ==
    \/ \E c \in CategoryRequests : CreateCategoryUpTo(MaxCategoryRows, c)
    \/ \E id \in 0..MaxCategoryRows, c \in CategoryRequests : UpdateCategory(id, c)
    \/ \E id \in 0..MaxCategoryRows : DeleteCategory(id)

SpecCategory == Init /\ [][NextCategory]_vars

\* six hexadecimal digits and no leading #
HashlessColor(color) ==
    /\ Len(color) = 6
    /\ WellFormedColor(<<"#">> \o color)

\* no row of the table, deleted or not, other than self has the name
NameFree(name, self) ==
    \A i \in 1..Len(categories) : i = self \/ categories[i].name # name

\* C17: category create and update accept a color given as six hex digits
\* without the leading # (for example FF0000) and store it with the #
\* prefixed (#FF0000).
C17_HashlessColorPrefixed ==
    [][\A c \in CategoryRequests :
           (/\ HashlessColor(c.color)
            /\ TrimSpace(c.name) # <<>>)
               => /\ (NameFree(TrimSpace(c.name), 0)
                         /\ CreateCategoryUpTo(MaxCategoryRows, c))
                      => /\ resp'.err = NoErr
                         /\ categories'[Len(categories')].color = <<"#">> \o c.color
                  /\ \A id \in 1..Len(categories) :
                         (/\ ~categories[id].deleted
                          /\ NameFree(TrimSpace(c.name), id)
                          /\ UpdateCategory(id, c))
                             => /\ resp'.err = NoErr
                                /\ categories'[id].color = <<"#">> \o c.color]_vars


\* the trimmed name is the name of another category that is not deleted
NameOfOtherLiveCategory(name, self) ==
    \E i \in 1..Len(categories) :
        i # self /\ ~categories[i].deleted /\ categories[i].name = TrimSpace(name)

\* C18: no two categories that are not deleted have the same name; a
\* CreateCategory or UpdateCategory that would give a category the name of
\* another non-deleted category fails with "category name already exists"
\* and leaves every category as it was.
C18_LiveNamesUnique ==
    /\ [](\A i, j \in 1..Len(categories) :
              (i # j /\ ~categories[i].deleted /\ ~categories[j].deleted)
                  => categories[i].name # categories[j].name)
    /\ [][\A c \in {r \in CategoryRequests : ValidCategoryInput(r)} :
              /\ (NameOfOtherLiveCategory(c.name, 0)
                     /\ CreateCategoryUpTo(MaxCategoryRows, c))
                  => /\ resp'.err = "category name already exists"
                     /\ categories' = categories
              /\ \A id \in 1..Len(categories) :
                     (/\ ~categories[id].deleted
                      /\ NameOfOtherLiveCategory(c.name, id)
                      /\ UpdateCategory(id, c))
                         => /\ resp'.err = "category name already exists"
                            /\ categories' = categories]_vars

C18_Witness ==
    /\ resp.op = "UpdateCategory"
    /\ resp.err = "category name already exists"
    /\ Len(categories) = 2
    /\ ~categories[1].deleted /\ ~categories[2].deleted

\* C19: every category that is not deleted has a color of the form # and six
\* hexadecimal digits, whatever CreateCategory and UpdateCategory calls
\* (also with an empty color) were made.
C19_StoredColorWellFormed ==
    \A i \in 1..Len(categories) :
        ~categories[i].deleted => WellFormedColor(categories[i].color)


----------------------------------------------------------------------------
(* storage failures: a statement of a write operation that the database    *)
(* refuses (connection lost, statement timeout)                            *)

\* the operations that write, as resp.op names them
WriteOps ==
    {"CreateTodo", "UpdateTodo", "DeleteTodo", "ToggleTodoComplete",
     "CreateCategory", "UpdateCategory", "DeleteCategory"}

\* database/sql's error for a connection that went away
StorageError == "driver: bad connection"

\* One of the operation's statements whose Error is read fails. A failing
\* db.First returns before any write is issued; a failing db.Create, db.Save
\* or db.Delete is one statement inside gorm's default transaction (the
\* configuration does not set SkipDefaultTransaction), which is rolled back.
\* The repository and the service pass the error on as it is.
StorageFailure(op) ==
    /\ resp' = Response(op, StorageError, 0, None)
    /\ UNCHANGED <<todos, categories, now, reqs>>

\* categoryService.DeleteCategory while the Count statement of
\* categoryRepository.Delete fails
DeleteCategoryCountFailed(id) ==
    LET r == IF id = 0 THEN [categories |-> categories, err |-> "invalid category ID"]
             ELSE CategoryRepositoryDeleteCountFailed(categories, todos, id) IN
    /\ categories' = r.categories
    /\ resp' = Response("DeleteCategory", r.err, id, None)
    /\ UNCHANGED <<todos, now, reqs>>

NextFault ==
    \/ Next
    \/ \E op \in WriteOps : StorageFailure(op)
    \/ \E id \in CategoryIds : DeleteCategoryCountFailed(id)

SpecFault == Init /\ [][NextFault]_vars

\* C20: whenever a todo or category create, update, delete or toggle returns
\* an error (validation failure, not found, conflict or storage failure), the
\* persisted todos and categories are exactly what they were before the call.
C20_WriteAllOrNothing ==
    [][(resp'.op \in WriteOps \cup NilCalls /\ resp'.err # NoErr)
           => (todos' = todos /\ categories' = categories)]_vars

C20_Witness ==
    /\ resp.op = "UpdateTodo"
    /\ resp.err # NoErr
    /\ First(todos, resp.id) # None
    /\ First(categories, 1) # None


----------------------------------------------------------------------------
(* due dates: time counts hours, so 24 * time.Hour is DueDateTolerance     *)

\* due dates as hours from the moment of the call: 48h, 25h, exactly 24h and
\* 1h in the past, and 1h ahead
DueOffsets == {-48, -25, -24, -1, 1}

DueRequest(off) == TodoRequest(0, <<"a">>, FALSE, "", Some(now + off), None)

NextDueDate ==
    \/ Tick
    \/ \E off \in DueOffsets : CreateTodo(DueRequest(off))
    \/ \E id \in TodoIds, off \in DueOffsets : UpdateTodo(id, DueRequest(off))

SpecDueDate == Init /\ [][NextDueDate]_vars

----------------------------------------------------------------------------
(* soft-deleted todos                                                      *)

\* todoService.GetTodoByID
GetTodoByID(id) ==
    LET r == TodoServiceGetTodoByID(todos, id) IN
    /\ resp' = Response("GetTodoByID", r.err, id, None)
    /\ UNCHANGED <<todos, categories, now, reqs>>

DeletedFilters == {TodoFilters(<<>>, completed, None, "") : completed \in {None, Some(TRUE)}}

DeletedPages == {Params(page, limit, "", "") : page \in {0, 2}, limit \in {0, 1}}

NextDeleted ==
    \/ \E t \in TodoInputs : CreateTodo(t)
    \/ \E id \in TodoIds, t \in TodoInputs : UpdateTodo(id, t)
    \/ \E id \in TodoIds : DeleteTodo(id)
    \/ \E id \in TodoIds : ToggleTodoComplete(id)
    \/ \E id \in TodoIds : GetTodoByID(id)
    \/ \E f \in DeletedFilters, p \in DeletedPages : ListTodos(f, p)

SpecDeleted == Init /\ [][NextDeleted]_vars

\* the todo was soft-deleted by an earlier DeleteTodo
TodoWasDeleted(id) == id \in 1..Len(todos) /\ todos[id].deleted

\* the request passes validateTodo and validateTodoBusinessRules
ValidTodoInput(t) ==
    /\ validateTodo(t) = NoErr
    /\ validateTodoBusinessRules(cleanTodoData(t), categories, now) = NoErr

\* what C22 says of one step, for the update inputs in the set
DeletedTodoNotFound(id, updates) ==
    TodoWasDeleted(id)
        => /\ todos'[id] = todos[id]
           /\ GetTodoByID(id) => resp'.err = "todo not found"
           /\ DeleteTodo(id) => resp'.err = "todo not found"
           /\ ToggleTodoComplete(id) => resp'.err = "todo not found"
           /\ \A t \in updates : UpdateTodo(id, t) => resp'.err = "todo not found"
           /\ resp'.op = "ListTodos"
                  => /\ \A k \in 1..Len(resp'.rows) : resp'.rows[k] # id
                     /\ resp'.pagination.total =
                            Cardinality({i \in 1..Len(todos) :
                                             Satisfies(todos[i], resp'.filters)})

\* C22 as stated: once a todo is soft-deleted, GetTodoByID, UpdateTodo,
\* ToggleTodoComplete and a second DeleteTodo for its id all return 'todo not
\* found', no ListTodos result has it, and pagination.total does not count it.
C22_DeletedTodoStaysExcluded ==
    [][\A id \in 1..MaxTodos : DeletedTodoNotFound(id, TodoInputs)]_vars

\* C22, amended: the same, with 'todo not found' promised only to an
\* UpdateTodo whose todo passes validation (a blank title or a category that
\* does not exist is refused with its validation error before the id is
\* looked up).
C22_DeletedTodoStaysExcludedToValidUpdate ==
    [][\A id \in 1..MaxTodos :
           DeletedTodoNotFound(id, {t \in TodoInputs : ValidTodoInput(t)})]_vars

C22_Witness ==
    /\ resp.op = "ListTodos"
    /\ resp.err = NoErr
    /\ Len(resp.rows) = 1
    /\ resp.pagination.total = 1
    /\ \E i \in 1..Len(todos) : todos[i].deleted


----------------------------------------------------------------------------
(* titles and priorities as they are stored                                *)

\* a title of n letters
LongTitle(n) == [i \in 1..n |-> "a"]

StoredTitles ==
    {<<" ", "a", "\t">>, <<" ">>, <<>>,
     LongTitle(MaxTitleLen), LongTitle(MaxTitleLen + 1)}

StoredPriorities == {"", PriorityHigh, "urgent"}

StoredRequests ==
    {TodoRequest(0, title, FALSE, priority, None, None) :
        title \in StoredTitles, priority \in StoredPriorities}

NextStored ==
    \/ \E t \in StoredRequests : CreateTodo(t)
    \/ \E id \in TodoIds, t \in StoredRequests : UpdateTodo(id, t)

SpecStored == Init /\ [][NextStored]_vars

\* C23: every persisted todo written through CreateTodo or UpdateTodo has a
\* priority in {low, medium, high}, medium when the request left it unset,
\* and a title that is non-empty, has no leading or trailing whitespace and
\* is at most 255 long.
C23_StoredTodoNormalized ==
    /\ [](\A i \in 1..Len(todos) :
              /\ todos[i].priority \in {PriorityLow, PriorityMedium, PriorityHigh}
              /\ todos[i].title # <<>>
              /\ ~IsSpace(todos[i].title[1])
              /\ ~IsSpace(todos[i].title[Len(todos[i].title)])
              /\ Len(todos[i].title) <= 255)
    /\ [][\A t \in {r \in StoredRequests : r.priority = ""} :
              /\ (CreateTodo(t) /\ resp'.err = NoErr)
                     => todos'[Len(todos')].priority = PriorityMedium
              /\ \A id \in 1..MaxTodos :
                     (UpdateTodo(id, t) /\ resp'.err = NoErr)
                         => todos'[id].priority = PriorityMedium]_vars

C23_Witness ==
    /\ resp.op = "UpdateTodo"
    /\ resp.err = NoErr
    /\ Len(todos) = 2
    /\ todos[resp.id].priority = PriorityMedium
    /\ Len(todos[resp.id].title) = 255
    /\ \E i \in 1..Len(todos) : todos[i].title = <<"a">> /\ todos[i].priority = PriorityHigh


----------------------------------------------------------------------------
(* the frontend's page size on its way to the backend                      *)

\* the sizes TodoPagination's Select offers
PageSizes == {5, 10, 20, 50}

\* handlePageSizeChange: setFilters({page: 1, per_page: pageSize})
handlePageSizeChange(pageSize) == [page |-> 1, per_page |-> pageSize]

\* todoApi.getTodos: the query string as a function from parameter names to
\* values; a parameter is appended when the filter's value is truthy
getTodos(filters) ==
    [name \in {n \in {"page", "per_page"} : filters[n] # 0} |-> filters[name]]

\* c.ShouldBindQuery(&pagination): each field is read from the parameter its
\* form tag names and stays zero when the query does not carry it
ShouldBindQuery(query) ==
    Params(IF "page" \in DOMAIN query THEN query["page"] ELSE 0,
           IF "limit" \in DOMAIN query THEN query["limit"] ELSE 0,
           "", "")

\* the user picks a page size and the list is fetched
FetchTodos(pageSize) ==
    ListTodos(TodoFilters(<<>>, None, None, ""),
              ShouldBindQuery(getTodos(handlePageSizeChange(pageSize))))

NextFetch ==
    /\ resp.op = "none"
    /\ \E pageSize \in PageSizes : FetchTodos(pageSize)

SpecFetch == InitList /\ [][NextFetch]_vars

\* C24: when the UI sets per_page = N (N in {5, 10, 20, 50}) and fetches the
\* todos, the backend returns at most N rows and reports
\* pagination.per_page = N.
C24_SelectedPageSizeApplied ==
    [][\A pageSize \in PageSizes :
           FetchTodos(pageSize)
               => /\ resp'.err = NoErr
                  /\ Len(resp'.rows) <= pageSize
                  /\ resp'.pagination.per_page = pageSize]_vars


----------------------------------------------------------------------------
(* toggles served concurrently: todoRepository.ToggleComplete issues       *)
(* db.First and db.Save as two statements outside any transaction          *)

\* todo 1 starts incomplete, todo 2 complete
InitToggleRace ==
    /\ todos = <<ListRow(<<"a">>, FALSE, PriorityMedium, None, FALSE),
                 ListRow(<<"a">>, TRUE, PriorityMedium, None, FALSE)>>
    /\ categories = <<>>
    /\ now = StartTime
    /\ resp = Response("none", NoErr, 0, None)
    /\ reqs = [s \in Slots |-> Idle]

\* todoService.ToggleTodoComplete up to its first statement
BeginToggle(s, id) ==
    LET r == Request("ToggleTodoComplete", "", None, id) IN
    /\ reqs[s].pc = "idle"
    /\ reqs' = [reqs EXCEPT ![s] =
          IF id = 0 THEN Finished(r, "invalid todo ID")
          ELSE [r EXCEPT !.pc = "first"]]
    /\ UNCHANGED <<todos, categories, now, resp>>

\* todoRepository.ToggleComplete: r.db.First(&todo, id), then todo.ToggleComplete()
StepToggleFirst(s) ==
    LET r == reqs[s] IN
    /\ r.pc = "first"
    /\ reqs' = [reqs EXCEPT ![s] =
          IF First(todos, r.id) = None THEN Finished(r, "todo not found")
          ELSE [r EXCEPT !.pc = "save",
                         !.todo = ToggleComplete(TodoStruct(r.id, Val(First(todos, r.id))))]]
    /\ UNCHANGED <<todos, categories, now, resp>>

\* todoRepository.ToggleComplete: r.db.Save(&todo); the request stays in its
\* slot with its result
StepToggleSave(s) ==
    LET r == reqs[s]
        w == SaveTodo(todos, categories, r.id, r.todo, now) IN
    /\ r.pc = "save"
    /\ todos' = w.todos
    /\ reqs' = [reqs EXCEPT ![s] = Finished(r, w.err)]
    /\ UNCHANGED <<categories, now, resp>>

NextToggleRace ==
    \/ \E s \in Slots, id \in 0..(MaxTodos + 1) : BeginToggle(s, id)
    \/ \E s \in Slots : StepToggleFirst(s)
    \/ \E s \in Slots : StepToggleSave(s)

SpecToggleRace == InitToggleRace /\ [][NextToggleRace]_vars

\* the toggles of the todo that returned success
SuccessfulToggles(id) ==
    Cardinality({s \in Slots : /\ reqs[s].op = "ToggleTodoComplete"
                               /\ reqs[s].pc = "done"
                               /\ reqs[s].err = NoErr
                               /\ reqs[s].id = id})

NoToggleInFlight == \A s \in Slots : reqs[s].pc \in {"idle", "done"}

\* C25: after n toggles of a todo that all returned success, also when their
\* read and save steps interleave, the stored flag equals the original value
\* when n is even and its negation when n is odd.
C25_NoToggleLost ==
    NoToggleInFlight =>
        \A id \in 1..2 :
            todos[id].completed = ((id = 2) # (SuccessfulToggles(id) % 2 = 1))


----------------------------------------------------------------------------
(* paging through one query: pages 1..total_pages requested one after the  *)
(* other with nothing written in between; reqs keeps the pages received    *)

PagingRows ==
    {ListRow(<<"a">>, FALSE, PriorityHigh, None, FALSE),
     ListRow(<<"b">>, FALSE, PriorityHigh, None, FALSE),
     ListRow(<<"b">>, TRUE, PriorityLow, None, FALSE)}

PagingQueries ==
    {Params(1, limit, sortBy, "asc") :
        limit \in {1, 2}, sortBy \in {"title", "priority", "completed"}}

InitPaging ==
    /\ todos \in Stores(PagingRows)
    /\ categories = <<>>
    /\ now = StartTime
    /\ resp = Response("none", NoErr, 0, None)
    /\ reqs = <<>>

\* one GET /api/todos of the walk: each is a query of its own, so the store
\* orders the rows that tie on the sort field anew
FetchPage(f, p) ==
    \E r \in TodoServiceListTodos(todos, f, p) :
        /\ resp' = [err |-> r.err, rows |-> r.rows, pagination |-> r.pagination, order |-> r.order,
                    op |-> "ListTodos", filters |-> f, params |-> p]
        /\ reqs' = Append(reqs, r.rows)
        /\ UNCHANGED <<todos, categories, now>>

FetchFirstPage ==
    /\ resp.op = "none"
    /\ \E p \in PagingQueries : FetchPage(TodoFilters(<<>>, None, None, ""), p)

FetchNextPage ==
    /\ resp.op = "ListTodos"
    /\ resp.err = NoErr
    /\ Len(reqs) < resp.pagination.total_pages
    /\ FetchPage(resp.filters, [resp.params EXCEPT !.page = Len(reqs) + 1])

NextPaging == FetchFirstPage \/ FetchNextPage

SpecPaging == InitPaging /\ [][NextPaging]_vars

\* every page of the query has been received
WalkComplete ==
    /\ resp.op = "ListTodos"
    /\ resp.err = NoErr
    /\ Len(reqs) = resp.pagination.total_pages

\* the places of the pages received that hold the todo
Occurrences(id) ==
    {pos \in (1..Len(reqs)) \X (1..MaxLimit) :
        pos[2] <= Len(reqs[pos[1]]) /\ reqs[pos[1]][pos[2]] = id}

\* C26: with no write in between, the pages 1..total_pages of one ListTodos
\* query return every matching todo exactly once, also when todos tie on the
\* sort field.
C26_PagesPartitionMatches ==
    WalkComplete =>
        \A id \in 1..Len(todos) :
            Cardinality(Occurrences(id)) = IF Satisfies(todos[id], resp.filters) THEN 1 ELSE 0


----------------------------------------------------------------------------
(* updates of stored todos                                                 *)

\* completed todos, some of them soft-deleted
UpdateRows ==
    {ListRow(<<"b">>, TRUE, PriorityLow, cat, deleted) :
        cat \in CategoryRefs, deleted \in BOOLEAN}

\* the bodies of PUT /api/todos/:id; the edit form's TodoFormData has no
\* completed field, so the bound struct holds completed = false
UpdateRequests ==
    {[TodoRequest(0, <<" ", "a", " ">>, completed, form[1], form[2], cat)
         EXCEPT !.description = <<"d", " ">>] :
        completed \in BOOLEAN,
        form \in {<<"", None>>, <<PriorityHigh, Some(StartTime)>>},
        cat \in CategoryRefs}

InitUpdate ==
    /\ todos \in Stores(UpdateRows)
    /\ categories = [c \in 1..MaxCategories |->
                        CategoryRow(CategoryRequest(0, <<"w">>, DefaultColor), StartTime)]
    /\ now = StartTime
    /\ resp = Response("none", NoErr, 0, None)
    /\ reqs = <<>>

NextUpdate == \E id \in 0..MaxListRows, t \in UpdateRequests : UpdateTodo(id, t)

SpecUpdate == InitUpdate /\ [][NextUpdate]_vars

----------------------------------------------------------------------------
(* The frontend's TodoContext over the backend. resp is what the page      *)
(* holds: state, the reducer's completed flag per todo, and closure, the   *)
(* state.todos captured by the toggleComplete callback of the last render. *)
(* reqs are the toggleComplete calls in flight.                            *)

\* the completed flags of a table's rows
Flags(tds) == [i \in 1..Len(tds) |-> tds[i].completed]

\* the page after fetchTodos
InitFrontend ==
    /\ todos = <<ListRow(<<"a">>, FALSE, PriorityMedium, None, FALSE),
                 ListRow(<<"a">>, TRUE, PriorityMedium, None, FALSE)>>
    /\ categories = <<>>
    /\ now = StartTime
    /\ resp = [op |-> "render", state |-> Flags(todos), closure |-> Flags(todos)]
    /\ reqs = [s \in Slots |-> Idle]

\* React renders again and useCallback([state.todos]) makes a new callback
Render ==
    /\ resp.closure # resp.state
    /\ resp' = [resp EXCEPT !.closure = resp.state]
    /\ UNCHANGED <<todos, categories, now, reqs>>

\* todoReducer UPDATE_TODO: the todo with the payload's id is replaced
ReduceUpdateTodo(state, id, completed) == [state EXCEPT ![id] = completed]

\* toggleComplete up to the await: todoToUpdate from the callback's
\* state.todos, the optimistic UPDATE_TODO, the PATCH sent
ToggleCompleteStart(s, id) ==
    /\ reqs[s].pc = "idle"
    /\ id \in DOMAIN resp.closure
    /\ resp' = [resp EXCEPT !.state = ReduceUpdateTodo(resp.state, id, ~resp.closure[id])]
    /\ reqs' = [reqs EXCEPT ![s] =
          [id |-> id, err |-> NoErr, op |-> "toggleComplete", pc |-> "sent",
           todoToUpdate |-> resp.closure[id]]]
    /\ UNCHANGED <<todos, categories, now>>

\* TodoHandler.ToggleTodoComplete serves the PATCH, or the request fails
\* before the backend wrote anything
ToggleCompleteServed(s) ==
    LET r == reqs[s]
        t == TodoServiceToggleTodoComplete(todos, categories, r.id, now) IN
    /\ r.pc = "sent"
    /\ \/ /\ todos' = t.todos
          /\ reqs' = [reqs EXCEPT ![s] = [r EXCEPT !.pc = "answered", !.err = t.err]]
       \/ /\ todos' = todos
          /\ reqs' = [reqs EXCEPT ![s] = [r EXCEPT !.pc = "answered", !.err = StorageError]]
    /\ UNCHANGED <<categories, now, resp>>

\* toggleComplete after the await: the success answer carries no data, so the
\* optimistic update is kept; on an error answer axios throws and the catch
\* block dispatches UPDATE_TODO with the todo of the callback's state.todos
ToggleCompleteSettled(s) ==
    LET r == reqs[s] IN
    /\ r.pc = "answered"
    /\ resp' = IF r.err = NoErr THEN resp
               ELSE [resp EXCEPT !.state = ReduceUpdateTodo(resp.state, r.id, r.todoToUpdate)]
    /\ reqs' = [reqs EXCEPT ![s] = Idle]
    /\ UNCHANGED <<todos, categories, now>>

NextFrontend ==
    \/ Render
    \/ \E s \in Slots, id \in 1..MaxTodos : ToggleCompleteStart(s, id)
    \/ \E s \in Slots : ToggleCompleteServed(s)
    \/ \E s \in Slots : ToggleCompleteSettled(s)

SpecFrontend == InitFrontend /\ [][NextFrontend]_vars

\* C28: after all in-flight toggleComplete calls have finished, the completed
\* flag in the frontend's local state equals the flag the backend stores,
\* also when a call failed and when two calls for the same todo started
\* before the first one's state update was visible to the second.
C28_FrontendMatchesBackend ==
    (\A s \in Slots : reqs[s].pc = "idle") => resp.state = Flags(todos)

----------------------------------------------------------------------------
(* DeleteCategory while the count of associated todos cannot be read       *)

\* C29: DeleteCategory soft-deletes a category only after the count of
\* non-deleted todos referencing it was read and found to be zero; when the
\* query that counts them fails, DeleteCategory returns an error and the
\* category stays non-deleted.
C29_CountFailureKeepsCategory ==
    \A id \in 1..MaxCategories :
        /\ (resp.op = "DeleteCategory" /\ resp.err = NoErr /\ resp.id = id)
               => CountTodosOfCategory(todos, id) = 0
        /\ First(categories, id) # None
               => LET r == CategoryRepositoryDeleteCountFailed(categories, todos, id) IN
                  r.err # NoErr /\ First(r.categories, id) # None


----------------------------------------------------------------------------
(* names of soft-deleted categories                                        *)

\* the trimmed name is the name of a soft-deleted category other than self
NameOfDeletedCategory(name, self) ==
    \E i \in 1..Len(categories) :
        i # self /\ categories[i].deleted /\ categories[i].name = TrimSpace(name)

\* C30: category names are unique over all rows, soft-deleted ones included:
\* after a category named N was soft-deleted, CreateCategory with name N and
\* UpdateCategory renaming another category to N fail with 'category name
\* already exists', so deletion never frees a name.
C30_DeletedNameStaysTaken ==
    /\ [](\A i, j \in 1..Len(categories) :
              i # j => categories[i].name # categories[j].name)
    /\ [][\A c \in {r \in CategoryRequests : ValidCategoryInput(r)} :
              /\ (NameOfDeletedCategory(c.name, 0)
                     /\ CreateCategoryUpTo(MaxCategoryRows, c))
                  => /\ resp'.err = "category name already exists"
                     /\ categories' = categories
              /\ \A id \in 1..Len(categories) :
                     (/\ ~categories[id].deleted
                      /\ NameOfDeletedCategory(c.name, id)
                      /\ UpdateCategory(id, c))
                         => /\ resp'.err = "category name already exists"
                            /\ categories' = categories]_vars

\* a rename to the name of a soft-deleted category was just refused
C30_Witness ==
    /\ resp.op = "UpdateCategory"
    /\ resp.err = "category name already exists"
    /\ Len(categories) = 2
    /\ \E i \in 1..2 : categories[i].deleted /\ i # resp.id
    /\ ~categories[resp.id].deleted

====
